---- MODULE Spec2Model ----
(***************************************************************************)
(* A model of the ReAct agent of src/agent.py, of the protocol decoder of  *)
(* src/response_parser.py and of the execution environments of             *)
(* src/envs.py.                                                            *)
(*                                                                         *)
(* A text is a sequence of tokens.  A token is the run of four dashes      *)
(* ("----") that opens and closes every protocol marker, the word of a     *)
(* marker (BEGIN_FUNCTION_CALL, END_FUNCTION_CALL, ARG, VALUE), a single   *)
(* whitespace character (" ", "\n", "\t") or a plain word: a non-empty     *)
(* string free of whitespace and of dashes that is no part of a marker     *)
(* word.  A marker is three tokens, and two markers that share their       *)
(* dashes (----ARG----ARG----) are five.  Python's character indices       *)
(* become token indices (0-based, as in the source); a marker occurs in    *)
(* the str exactly where its three tokens occur in the sequence, so        *)
(* rfind/slice arithmetic keeps its meaning with len(marker) = 3.  Join    *)
(* turns a text into the string stored in the ledger.  The "timestamp"     *)
(* field of a message (time.time()) is left out: no code reads it.         *)
(***************************************************************************)
EXTENDS Integers, Sequences, FiniteSets, TLC

\* ------------------------------------------------------------------------
\* Bounds of the model (not program constants)
\* ------------------------------------------------------------------------
\* largest step budget handed to run in Spec
MaxBudget == 3
\* number of add_message / set_message_content / add_functions calls made
\* by the surrounding application around the run
MaxApiCalls == 2
\* longest arbitrary text, in pieces (markers, markers short of their
\* opening dashes, whitespace characters, words), handed to parse directly
MaxTextLen == 5
\* most ARG/VALUE blocks in a response handed to parse directly
MaxArgs == 2
MaxRerunCalls == 2

\* ------------------------------------------------------------------------
\* ResponseParser: markers and template (src/response_parser.py 9-32)
\* ------------------------------------------------------------------------
\* A text is the sequence of its tokens: the four dashes that open and
\* close every marker, the words between them, whitespace characters and
\* plain words.  No word holds a dash and no plain word is part of a
\* marker word, so a marker occurs in the str exactly where its three
\* tokens occur in the sequence, two markers that share their dashes
\* (----ARG----ARG----) included; positions are counted in tokens.
Dashes == "----"
BEGIN_CALL == <<Dashes, "BEGIN_FUNCTION_CALL", Dashes>>
END_CALL == <<Dashes, "END_FUNCTION_CALL", Dashes>>
ARG_SEP == <<Dashes, "ARG", Dashes>>
VALUE_SEP == <<Dashes, "VALUE", Dashes>>

RECURSIVE Join(_)
\* the string a text stands for
Join(toks) == IF toks = <<>> THEN "" ELSE Head(toks) \o Join(Tail(toks))

response_format ==
    "\nyour_thoughts_here\n...\n" \o Join(BEGIN_CALL) \o "\nfunction_name\n"
    \o Join(ARG_SEP) \o "\narg1_name\n" \o Join(VALUE_SEP)
    \o "\narg1_value (can be multiline)\n"
    \o Join(ARG_SEP) \o "\narg2_name\n" \o Join(VALUE_SEP)
    \o "\narg2_value (can be multiline)\n...\n" \o Join(END_CALL)
    \o "\n\nDO NOT CHANGE ANY TEST! AS THEY WILL BE USED FOR EVALUATION.\n"

\* len(marker), in tokens
MarkerLen(marker) == Len(marker)

\* characters removed by str.strip() / str.rstrip() that occur in the texts
Whitespace == {" ", "\n", "\t"}

Max(S) == CHOOSE m \in S : \A x \in S : x <= m
Min(S) == CHOOSE m \in S : \A x \in S : m <= x

\* text[lo:hi] with 0-based, already clipped, non-negative bounds
Slice(text, lo, hi) ==
    LET h == IF hi > Len(text) THEN Len(text) ELSE hi
    IN  IF lo >= h THEN <<>> ELSE SubSeq(text, lo + 1, h)

\* the lowest index instead of the highest, as str.find gives it
rfind_First(text, sub, start, end) ==
    LET hits == {i \in start..(end - MarkerLen(sub)) :
                    /\ i + MarkerLen(sub) <= Len(text)
                    /\ SubSeq(text, i + 1, i + MarkerLen(sub)) = sub}
    IN  IF hits = {} THEN -1 ELSE CHOOSE m \in hits : \A x \in hits : m <= x

\* text.rfind(sub, start, end): highest index i with start <= i and
\* i + len(sub) <= end at which sub occurs, -1 when there is none; an
\* occurrence that reaches beyond end is not found
rfind(text, sub, start, end) ==
    LET hits == {i \in start..(end - MarkerLen(sub)) :
                    /\ i + MarkerLen(sub) <= Len(text)
                    /\ SubSeq(text, i + 1, i + MarkerLen(sub)) = sub}
    IN  IF hits = {} THEN -1 ELSE Max(hits)

RECURSIVE lstrip(_)
lstrip(toks) ==
    IF toks # <<>> /\ Head(toks) \in Whitespace THEN lstrip(Tail(toks))
    ELSE toks

RECURSIVE rstrip(_)
rstrip(toks) ==
    IF toks # <<>> /\ toks[Len(toks)] \in Whitespace
    THEN rstrip(SubSeq(toks, 1, Len(toks) - 1))
    ELSE toks

\* no trimming at all
strip_None(toks) == toks

\* trimming at the end only
strip_RightOnly(toks) == rstrip(toks)

strip(toks) == lstrip(rstrip(toks))

\* the text taken for one line, line breaks and all
splitlines_Whole(toks) == IF toks = <<>> THEN <<>> ELSE <<toks>>

RECURSIVE splitlines(_)
\* str.splitlines(): the lines of a text, line breaks removed; a trailing
\* line break opens no further line
splitlines(toks) ==
    IF toks = <<>> THEN <<>>
    ELSE LET brk == {i \in 1..Len(toks) : toks[i] = "\n"}
         IN  IF brk = {} THEN <<toks>>
             ELSE LET b == CHOOSE i \in brk : \A j \in brk : i <= j
                  IN  <<SubSeq(toks, 1, b - 1)>>
                      \o splitlines(SubSeq(toks, b + 1, Len(toks)))

\* a dict that keeps the value a key already has
DictSet_KeepExisting(d, k, v) ==
    [x \in (DOMAIN d) \cup {k} |-> IF x \in DOMAIN d THEN d[x] ELSE v]

\* arguments[arg_name] = value on a dict (a function on its keys)
DictSet(d, k, v) ==
    [x \in (DOMAIN d) \cup {k} |-> IF x = k THEN v ELSE d[x]]

EmptyDict == [x \in {} |-> ""]

ErrNoEnd == "END function call marker not found"
ErrNoBegin == "BEGIN function call marker not found"
ErrMalformed == "Malformed function call block; missing ARG or VALUE separator"
ErrNoName == "Function name not found in function call block"

RECURSIVE ParseArgs_SkipDangling(_, _, _, _)
\* the while loop passing over an ARG block that has no VALUE marker
ParseArgs_SkipDangling(text, begin_content_idx, end_idx, arguments) ==
    LET arg_idx == rfind(text, ARG_SEP, begin_content_idx, end_idx)
        val_idx == rfind(text, VALUE_SEP, arg_idx + MarkerLen(ARG_SEP), end_idx)
    IN  IF arg_idx = -1
        THEN [error |-> "", end_idx |-> end_idx, arguments |-> arguments]
        ELSE IF val_idx = -1 \/ val_idx <= arg_idx
        THEN ParseArgs_SkipDangling(text, begin_content_idx, arg_idx,
                                    arguments)
        ELSE ParseArgs_SkipDangling(
                 text, begin_content_idx, arg_idx,
                 DictSet(arguments,
                         Join(strip(Slice(text, arg_idx + MarkerLen(ARG_SEP),
                                          val_idx))),
                         Join(strip(Slice(text,
                                          val_idx + MarkerLen(VALUE_SEP),
                                          end_idx)))))

RECURSIVE ParseArgs(_, _, _, _)
\* the while loop of parse: consumes ARG/VALUE blocks from the last one
\* backwards; yields the final end_idx and the argument map, or the error
ParseArgs(text, begin_content_idx, end_idx, arguments) ==
    LET arg_idx == rfind(text, ARG_SEP, begin_content_idx, end_idx)
        val_idx == rfind(text, VALUE_SEP, arg_idx + MarkerLen(ARG_SEP), end_idx)
    IN  IF arg_idx = -1
        THEN [error |-> "", end_idx |-> end_idx, arguments |-> arguments]
        ELSE IF val_idx = -1 \/ val_idx <= arg_idx
        THEN [error |-> ErrMalformed, end_idx |-> end_idx,
              arguments |-> arguments]
        ELSE LET arg_name_section ==
                     Slice(text, arg_idx + MarkerLen(ARG_SEP), val_idx)
                 value_section ==
                     Slice(text, val_idx + MarkerLen(VALUE_SEP), end_idx)
                 arg_name == Join(strip(arg_name_section))
                 value == Join(strip(value_section))
             IN  ParseArgs(text, begin_content_idx, arg_idx,
                           DictSet(arguments, arg_name, value))

\* the first line taken for the name even when it is blank
FirstNonEmptyLine_FirstLine(lines) ==
    IF lines = <<>> THEN "" ELSE Join(strip(Head(lines)))

RECURSIVE FirstNonEmptyLine(_)
\* the for loop of parse over name_window.splitlines(); "" stands for None
FirstNonEmptyLine(lines) ==
    IF lines = <<>> THEN ""
    ELSE IF strip(Head(lines)) # <<>> THEN Join(strip(Head(lines)))
    ELSE FirstNonEmptyLine(Tail(lines))

ParseFailure(msg) ==
    [error |-> msg, thought |-> "", name |-> "", arguments |-> EmptyDict]

\* parse looking at the BEGIN marker before it looks at the END marker
parse_BeginCheckedFirst(text) ==
    LET end_idx == rfind(text, END_CALL, 0, Len(text))
        begin_idx == rfind(text, BEGIN_CALL, 0, end_idx)
        thought == Join(rstrip(Slice(text, 0, begin_idx)))
        begin_content_idx == begin_idx + MarkerLen(BEGIN_CALL)
        args == ParseArgs(text, begin_content_idx, end_idx, EmptyDict)
        name_window == Slice(text, begin_content_idx, args.end_idx)
        name == FirstNonEmptyLine(splitlines(name_window))
    IN  IF begin_idx = -1 THEN ParseFailure(ErrNoBegin)
        ELSE IF end_idx = -1 THEN ParseFailure(ErrNoEnd)
        ELSE IF args.error # "" THEN ParseFailure(args.error)
        ELSE IF name = "" THEN ParseFailure(ErrNoName)
        ELSE [error |-> "", thought |-> thought, name |-> name,
              arguments |-> args.arguments]

\* parse taking the last BEGIN marker of the whole text, wherever the last
\* END marker is
parse_BeginAnywhere(text) ==
    LET end_idx == rfind(text, END_CALL, 0, Len(text))
        begin_idx == rfind(text, BEGIN_CALL, 0, Len(text))
        thought == Join(rstrip(Slice(text, 0, begin_idx)))
        begin_content_idx == begin_idx + MarkerLen(BEGIN_CALL)
        args == ParseArgs(text, begin_content_idx, end_idx, EmptyDict)
        name_window == Slice(text, begin_content_idx, args.end_idx)
        name == FirstNonEmptyLine(splitlines(name_window))
    IN  IF end_idx = -1 THEN ParseFailure(ErrNoEnd)
        ELSE IF begin_idx = -1 THEN ParseFailure(ErrNoBegin)
        ELSE IF args.error # "" THEN ParseFailure(args.error)
        ELSE IF name = "" THEN ParseFailure(ErrNoName)
        ELSE [error |-> "", thought |-> thought, name |-> name,
              arguments |-> args.arguments]

\* ResponseParser.parse: error = "" on success, else the ValueError message
parse(text) ==
    LET end_idx == rfind(text, END_CALL, 0, Len(text))
        begin_idx == rfind(text, BEGIN_CALL, 0, end_idx)
        thought == Join(rstrip(Slice(text, 0, begin_idx)))
        begin_content_idx == begin_idx + MarkerLen(BEGIN_CALL)
        args == ParseArgs(text, begin_content_idx, end_idx, EmptyDict)
        name_window == Slice(text, begin_content_idx, args.end_idx)
        name == FirstNonEmptyLine(splitlines(name_window))
    IN  IF end_idx = -1 THEN ParseFailure(ErrNoEnd)
        ELSE IF begin_idx = -1 THEN ParseFailure(ErrNoBegin)
        ELSE IF args.error # "" THEN ParseFailure(args.error)
        ELSE IF name = "" THEN ParseFailure(ErrNoName)
        ELSE [error |-> "", thought |-> thought, name |-> name,
              arguments |-> args.arguments]

\* Python values handed to parse: a str with its text, or a value of
\* another type
PyStr(toks) == [type |-> "str", value |-> toks]
PyNone == [type |-> "NoneType", value |-> <<>>]
PyInt == [type |-> "int", value |-> <<"7">>]
PyBytes(toks) == [type |-> "bytes", value |-> toks]

ErrNotString == "Input to ResponseParser.parse must be a string"

\* ResponseParser.parse on any Python value: the isinstance check of lines
\* 44-45, then the decoding of the text
parse_checked(obj) ==
    IF obj.type # "str" THEN ParseFailure(ErrNotString)
    ELSE parse(obj.value)

\* ------------------------------------------------------------------------
\* Execution environments (src/envs.py)
\* ------------------------------------------------------------------------
\* The shell commands the model's completion provider asks for.  "touch f"
\* exits 0, prints nothing and leaves a new file in the working tree;
\* "false" exits 1 and prints nothing.
CmdTouch == "touch f"
CmdFalse == "false"
\* the command of generate_patch and check_patch
CmdGitDiff == "git add -A && git diff --cached"

ShellReturnCode(command) == IF command = CmdFalse THEN 1 ELSE 0
ShellStdout(command) == ""
ShellStderr(command) == ""
\* whether the working tree differs from HEAD after the command
ShellLeavesChanges(command, changes) == changes \/ command = CmdTouch

\* DumbEnvironment.execute: [raised, value]
DumbExecute(command) ==
    LET output == "--STDOUT--\n" \o ShellStdout(command)
                  \o "\n--STDERR--\n" \o ShellStderr(command)
    IN  IF ShellReturnCode(command) # 0
        THEN [raised |-> "ValueError", value |-> output]
        ELSE [raised |-> "", value |-> output]

\* The sandbox behind SWEEnvironment.env (utils.get_sb_environment) is
\* [changes, execute]: whether its working tree has uncommitted changes,
\* and what its execute does:
\*   "str"            returns the text printed, raises on a nonzero exit
\*   "dict"           returns {"output": ..., "returncode": ...}, never raises
\*   "TimeoutExpired" raises subprocess.TimeoutExpired
\*   "TimeoutError"   raises TimeoutError
\*   "git_locked"     as "str", with .git/index.lock held: git add fails
ExecuteModes == {"str", "dict", "TimeoutExpired", "TimeoutError", "git_locked"}
NewSandbox(mode) == [changes |-> FALSE, execute |-> mode]

\* exit status and output of a command in the sandbox
SandboxReturnCode(command, sandbox) ==
    IF command = CmdGitDiff
    THEN IF sandbox.execute = "git_locked" THEN 128 ELSE 0
    ELSE ShellReturnCode(command)

SandboxStdout(command, sandbox) ==
    IF command = CmdGitDiff
    THEN IF sandbox.changes /\ sandbox.execute # "git_locked"
         THEN "diff --git a/f b/f"
         ELSE ""
    ELSE ShellStdout(command)

\* self.env.execute(command): [raised, type, output]; output is the text
\* printed, also where it comes inside a dict or with a TimeoutExpired
SandboxExecute(command, sandbox) ==
    CASE sandbox.execute \in {"TimeoutExpired", "TimeoutError"} ->
            [raised |-> sandbox.execute, type |-> "", output |-> ""]
      [] sandbox.execute = "dict" ->
            [raised |-> "", type |-> "dict",
             output |-> SandboxStdout(command, sandbox)]
      [] OTHER ->
            IF SandboxReturnCode(command, sandbox) # 0
            THEN [raised |-> "RuntimeError", type |-> "",
                  output |-> SandboxStdout(command, sandbox)]
            ELSE [raised |-> "", type |-> "str",
                  output |-> SandboxStdout(command, sandbox)]

\* the working tree after execute(command): a command that timed out or
\* failed has left it as it was
SandboxAfter(command, sandbox) ==
    IF SandboxExecute(command, sandbox).raised # "" THEN sandbox
    ELSE [sandbox EXCEPT !.changes = ShellLeavesChanges(command, @)]

\* str(e) of the subprocess.TimeoutExpired of a sandbox with a time limit
\* of one second
TimeoutExpiredStr(command) ==
    "Command '" \o command \o "' timed out after 1 seconds"

\* SWEEnvironment.run_bash_cmd: [raised, value, sandbox].  The handler of
\* TimeoutError reads `output`, which the failed assignment of line 35
\* left unbound.
run_bash_cmd(command, sandbox) ==
    LET r == SandboxExecute(command, sandbox)
    IN  CASE r.raised = "TimeoutExpired" ->
                [raised |-> "",
                 value |-> "Command timed out with: "
                           \o TimeoutExpiredStr(command)
                           \o ".\n\nPartial output:\n" \o r.output,
                 sandbox |-> sandbox]
          [] r.raised = "TimeoutError" ->
                [raised |-> "UnboundLocalError", value |-> "",
                 sandbox |-> sandbox]
          [] r.raised \notin {"", "TimeoutExpired", "TimeoutError"} ->
                [raised |-> r.raised, value |-> "", sandbox |-> sandbox]
          [] OTHER ->
                [raised |-> "", value |-> r.output,
                 sandbox |-> SandboxAfter(command, sandbox)]

\* SWEEnvironment.check_patch: the diff printed is not blank; any
\* exception of execute makes it False
check_patch(sandbox) ==
    LET r == SandboxExecute(CmdGitDiff, sandbox)
    IN  IF r.raised # "" THEN FALSE
        ELSE LET patch_output == r.output
             IN  patch_output # ""

\* ------------------------------------------------------------------------
\* Tools: the callables handed to add_functions
\* ------------------------------------------------------------------------
ToolFinish == "ReactAgent.finish"
ToolDumbBash == "DumbEnvironment.run_bash_cmd"
ToolSWEBash == "SWEEnvironment.run_bash_cmd"
ToolCheckPatch == "SWEEnvironment.check_patch"
\* a callable of the application that is also named finish:
\* def finish(result): return result
ToolUserFinish == "application.finish"

\* tool.__name__
ToolName(tool) ==
    CASE tool = ToolFinish -> "finish"
      [] tool = ToolDumbBash -> "run_bash_cmd"
      [] tool = ToolSWEBash -> "run_bash_cmd"
      [] tool = ToolCheckPatch -> "check_patch"
      [] tool = ToolUserFinish -> "finish"

\* the parameters of the bound method; none has a default
ToolParams(tool) ==
    CASE tool = ToolFinish -> {"result"}
      [] tool = ToolDumbBash -> {"command"}
      [] tool = ToolSWEBash -> {"command"}
      [] tool = ToolCheckPatch -> {}
      [] tool = ToolUserFinish -> {"result"}

\* ReactAgent.finish
finish(result) == result

\* tool(**arguments) with the sandbox in state `sandbox`:
\* [raised, value, sandbox].  A keyword that is no parameter, or a
\* parameter without a keyword, is a TypeError of the call itself.
CallTool(tool, arguments, sandbox) ==
    IF DOMAIN arguments # ToolParams(tool)
    THEN [raised |-> "TypeError", value |-> "", sandbox |-> sandbox]
    ELSE CASE tool = ToolFinish ->
                [raised |-> "", value |-> finish(arguments["result"]),
                 sandbox |-> sandbox]
           [] tool = ToolDumbBash ->
                LET r == DumbExecute(arguments["command"])
                IN  [raised |-> r.raised, value |-> r.value,
                     sandbox |-> sandbox]
           [] tool = ToolSWEBash ->
                run_bash_cmd(arguments["command"], sandbox)
           [] tool = ToolCheckPatch ->
                [raised |-> "",
                 value |-> IF check_patch(sandbox) THEN "True" ELSE "False",
                 sandbox |-> sandbox]
           [] tool = ToolUserFinish ->
                [raised |-> "", value |-> arguments["result"],
                 sandbox |-> sandbox]

\* ------------------------------------------------------------------------
\* ReactAgent (src/agent.py)
\* ------------------------------------------------------------------------
\* the module-level prompt, lines 23-67, cut after its first sentence
system_prompt == "\n    You are a Smart ReAct agent. [...]\n"

\* hard ceiling of the step budget
MAX_STEPS_CEILING == 100

VARIABLES
    id_to_message,      \* the ledger: sequence of [role, content, unique_id]
    current_message_id,
    returned_ids,       \* the ids add_message has returned, oldest first
    system_message_id,
    user_message_id,
    function_map,       \* tool name -> tool
    function_names,     \* the keys of function_map in insertion order
    sandbox,            \* the sandbox of SWEEnvironment: [changes, execute]
    pc,                 \* "idle", "loop", "returned", "raised"
    budget,             \* the max_steps argument run was called with
    max_steps,          \* run's clamped budget
    step,               \* iterations of run's for loop started so far
    response_text,      \* the provider's latest raw text
    outcome,            \* how the latest iteration of run ended
    run_result,         \* <<>>, <<"None">>, <<"str", s>> or <<"raise", e>>
    llm_calls,          \* completion-provider calls made
    tool_log,           \* the calls [tool, arguments] made for the model
    api_calls,          \* calls made by the application outside run
    decoder             \* the direct call of ResponseParser.parse made so
                        \* far: its input, how the input was built and
                        \* the result; case "none" before the call

vars == <<id_to_message, current_message_id, returned_ids, system_message_id,
          user_message_id, function_map, function_names, sandbox, pc, budget,
          max_steps, step, response_text, outcome, run_result, llm_calls,
          tool_log, api_calls, decoder>>

\* the ledger fields an add_message / set_message_content call works on
Ledger == [id_to_message |-> id_to_message,
           current_message_id |-> current_message_id,
           returned_ids |-> returned_ids]

EmptyLedger == [id_to_message |-> <<>>, current_message_id |-> -1,
                returned_ids |-> <<>>]

\* add_message with the increment of current_message_id forgotten
add_message_NoIncrement(L, role, content) ==
    LET id == L.current_message_id
    IN  [id_to_message |-> Append(L.id_to_message,
                                  [role |-> role, content |-> content,
                                   unique_id |-> id]),
         current_message_id |-> id,
         returned_ids |-> Append(L.returned_ids, id)]

\* ReactAgent.add_message; the id it returns is the last of returned_ids
add_message(L, role, content) ==
    LET id == L.current_message_id + 1
    IN  [id_to_message |-> Append(L.id_to_message,
                                  [role |-> role, content |-> content,
                                   unique_id |-> id]),
         current_message_id |-> id,
         returned_ids |-> Append(L.returned_ids, id)]

\* the assignment of line 128 without the range check before it: a
\* negative id counts from the end of the list
set_message_content_Unchecked(L, message_id, content) ==
    IF message_id >= Len(L.id_to_message)
       \/ message_id < 0 - Len(L.id_to_message)
    THEN L
    ELSE IF message_id < 0
    THEN [L EXCEPT !.id_to_message[Len(L.id_to_message) + message_id + 1]
                      .content = content]
    ELSE [L EXCEPT !.id_to_message[message_id + 1].content = content]

\* ReactAgent.set_message_content
set_message_content(L, message_id, content) ==
    IF message_id < 0 \/ message_id >= Len(L.id_to_message)
    THEN L
    ELSE [L EXCEPT !.id_to_message[message_id + 1].content = content]

\* the registry built afresh from the tools handed in
add_functions_Fresh(fmap, tools) ==
    [n \in {ToolName(tools[i]) : i \in 1..Len(tools)} |->
        tools[Max({i \in 1..Len(tools) : ToolName(tools[i]) = n})]]

\* ReactAgent.add_functions on a registry
RECURSIVE add_functions(_, _)
add_functions(fmap, tools) ==
    IF tools = <<>> THEN fmap
    ELSE add_functions(DictSet(fmap, ToolName(Head(tools)), Head(tools)),
                       Tail(tools))

\* the order of the keys of function_map after add_functions: a new name
\* goes last, a name already present keeps its place
RECURSIVE add_function_names(_, _)
add_function_names(names, tools) ==
    IF tools = <<>> THEN names
    ELSE add_function_names(
             IF \E i \in 1..Len(names) : names[i] = ToolName(Head(tools))
             THEN names
             ELSE Append(names, ToolName(Head(tools))),
             Tail(tools))

\* str(inspect.signature(tool)) of the bound method
ToolSignature(tool) ==
    CASE tool = ToolFinish -> "(result: str)"
      [] tool = ToolDumbBash -> "(command: str) -> str"
      [] tool = ToolSWEBash -> "(command: str) -> str"
      [] tool = ToolCheckPatch -> "() -> bool"
      [] tool = ToolUserFinish -> "(result)"

\* inspect.getdoc(tool), cut after its first sentence
ToolDocstring(tool) ==
    CASE tool = ToolFinish -> "The agent must call this function [...]"
      [] tool = ToolDumbBash -> "Run the command in a bash shell [...]"
      [] tool = ToolSWEBash -> "Run the command in a bash shell [...]"
      [] tool = ToolCheckPatch -> "Check for a non-empty patch [...]"
      [] tool = ToolUserFinish -> "None"

\* line 245: the description of one tool
ToolDescription(tool) ==
    "Function: " \o ToolName(tool) \o ToolSignature(tool) \o "\n"
        \o ToolDocstring(tool) \o "\n"

\* lines 242-248: the descriptions of function_map.values(), in the order
\* of the dictionary, joined by a newline
RECURSIVE ToolDescriptions(_, _)
ToolDescriptions(fmap, names) ==
    IF names = <<>> THEN ""
    ELSE ToolDescription(fmap[Head(names)])
             \o (IF Tail(names) = <<>> THEN "" ELSE "\n")
             \o ToolDescriptions(fmap, Tail(names))

\* line 238: the header of a rendered block
MessageHeader(message) ==
    "----------------------------\n|MESSAGE(role=\"" \o message.role
        \o "\", id=" \o ToString(message.unique_id) \o ")|\n"

\* ReactAgent.message_id_to_context
message_id_to_context(messages, fmap, names, message_id) ==
    LET message == messages[message_id + 1]
    IN  IF message.role = "system"
        THEN MessageHeader(message) \o message.content \o "\n"
                 \o "--- AVAILABLE TOOLS ---\n"
                 \o ToolDescriptions(fmap, names) \o "\n\n"
                 \o "--- RESPONSE FORMAT ---\n" \o response_format \o "\n"
        ELSE MessageHeader(message) \o message.content \o "\n"

\* get_context skipping the system slot only
RECURSIVE get_context_TaskSlotIncluded(_, _, _, _, _, _)
get_context_TaskSlotIncluded(L, sys_id, user_id, fmap, names, id) ==
    IF id >= L.current_message_id + 1 THEN ""
    ELSE (IF id = sys_id THEN ""
          ELSE message_id_to_context(L.id_to_message, fmap, names, id))
             \o get_context_TaskSlotIncluded(L, sys_id, user_id, fmap, names,
                                             id + 1)

\* ReactAgent.get_context: the loop of lines 136-140 from id onward
RECURSIVE get_context(_, _, _, _, _, _)
get_context(L, sys_id, user_id, fmap, names, id) ==
    IF id >= L.current_message_id + 1 THEN ""
    ELSE (IF id = sys_id \/ id = user_id THEN ""
          ELSE message_id_to_context(L.id_to_message, fmap, names, id))
             \o get_context(L, sys_id, user_id, fmap, names, id + 1)

\* the transcript of the agent's present state
Transcript ==
    get_context(Ledger, system_message_id, user_message_id, function_map,
                function_names, 0)

\* the corrective entries run writes
ParseErrorMessage(text) ==
    "The previous response could not be parsed. The correct response format is:\n"
    \o response_format \o "\n\nInvalid response:\n" \o Join(text)

InvalidFunctionMessage(name, text) ==
    "The previous response called an invalid function: '" \o name
    \o "'. The available tools are described in the system prompt.\n\nInvalid response:\n"
    \o Join(text)

EmptyPatchMessage ==
    "The generated patch is empty. I must ensure code changes are complete and correct before finishing."

ExhaustedMessage == "Reached max_steps without calling finish"

\* __init__: two add_message calls, then add_functions([self.finish])
\* the record of the decoder before parse has been called directly
NoCall ==
    [case |-> "none", input |-> PyNone, result |-> ParseFailure(""),
     thought |-> <<>>, name |-> <<>>, args |-> <<>>, after |-> <<>>,
     before |-> <<>>, dropped |-> 0, first |-> <<>>, middle |-> <<>>]

InitLedger ==
    add_message(add_message(EmptyLedger, "system", system_prompt), "user", "")

Init ==
    /\ id_to_message = InitLedger.id_to_message
    /\ current_message_id = InitLedger.current_message_id
    /\ returned_ids = InitLedger.returned_ids
    /\ system_message_id =
          add_message(EmptyLedger, "system", system_prompt).current_message_id
    /\ user_message_id = InitLedger.current_message_id
    /\ function_map = add_functions(EmptyDict, <<ToolFinish>>)
    /\ function_names = add_function_names(<<>>, <<ToolFinish>>)
    /\ sandbox = NewSandbox("str")
    /\ pc = "idle"
    /\ budget = 0
    /\ max_steps = 0
    /\ step = 0
    /\ response_text = <<>>
    /\ outcome = "none"
    /\ run_result = <<>>
    /\ llm_calls = 0
    /\ tool_log = <<>>
    /\ api_calls = 0
    /\ decoder = NoCall

\* ------------------------------------------------------------------------
\* Inputs: what the completion provider answers and what the application
\* passes in
\* ------------------------------------------------------------------------
\* decoder failures: no END, no BEGIN, ARG without VALUE, no function name
RespNoEnd == <<"think", "\n">> \o BEGIN_CALL \o <<"\n", "finish", "\n">>
RespNoBegin == <<"think", "\n", "finish", "\n">> \o END_CALL
RespMalformed ==
    <<"think", "\n">> \o BEGIN_CALL \o <<"\n", "run_bash_cmd", "\n">>
        \o ARG_SEP \o <<"\n", "command", "\n">> \o END_CALL
RespNoName == <<"think", "\n">> \o BEGIN_CALL \o <<"\n">> \o END_CALL
\* a name that is no tool, after a thought that mentions finish
RespUnknown ==
    <<"now", " ", "finish", "\n">> \o BEGIN_CALL \o <<"\n", "submit", "\n">>
        \o END_CALL
RespFinish(r) ==
    <<"done", "\n">> \o BEGIN_CALL \o <<"\n", "finish", "\n">>
        \o ARG_SEP \o <<"\n", "result", "\n">>
        \o VALUE_SEP \o <<"\n", r, "\n">> \o END_CALL
RespTouch ==
    <<"edit", "\n">> \o BEGIN_CALL \o <<"\n", "run_bash_cmd", "\n">>
        \o ARG_SEP \o <<"\n", "command", "\n">>
        \o VALUE_SEP \o <<"\n", "touch", " ", "f", "\n">> \o END_CALL
RespFalse ==
    <<"test", "\n">> \o BEGIN_CALL \o <<"\n", "run_bash_cmd", "\n">>
        \o ARG_SEP \o <<"\n", "command", "\n">>
        \o VALUE_SEP \o <<"\n", "false", "\n">> \o END_CALL
\* finish without its required argument
RespFinishNoArg ==
    <<"done", "\n">> \o BEGIN_CALL \o <<"\n", "finish", "\n">> \o END_CALL
\* finish with an argument it does not declare
RespFinishExtra ==
    <<"done", "\n">> \o BEGIN_CALL \o <<"\n", "finish", "\n">>
        \o ARG_SEP \o <<"\n", "result", "\n">>
        \o VALUE_SEP \o <<"\n", "r1", "\n">>
        \o ARG_SEP \o <<"\n", "extra", "\n">>
        \o VALUE_SEP \o <<"\n", "x", "\n">> \o END_CALL

Responses ==
    {RespNoEnd, RespNoBegin, RespMalformed, RespNoName, RespUnknown,
     RespFinish("r1"), RespFinish("r2"), RespTouch, RespFalse,
     RespFinishNoArg, RespFinishExtra}

Tasks == {"fix the bug"}
ToolLists == {<<ToolDumbBash>>, <<ToolSWEBash, ToolCheckPatch>>}
ApiRoles == {"user"}
ApiContents == {"note"}
SetContents == {"edited"}
\* budgets around the ceiling, for SpecCeiling
CeilingBudgets == (MAX_STEPS_CEILING - 1)..(MAX_STEPS_CEILING + 2)

\* ------------------------------------------------------------------------
\* Operations
\* ------------------------------------------------------------------------
NotRunning == pc \in {"idle", "returned", "raised"}

SetLedger(L) ==
    /\ id_to_message' = L.id_to_message
    /\ current_message_id' = L.current_message_id
    /\ returned_ids' = L.returned_ids

\* the application calls agent.add_message(role, content)
AddMessage(role, content) ==
    /\ NotRunning
    /\ api_calls < MaxApiCalls
    /\ api_calls' = api_calls + 1
    /\ SetLedger(add_message(Ledger, role, content))
    /\ UNCHANGED <<system_message_id, user_message_id, function_map,
                   function_names, sandbox, pc, budget, max_steps, step,
                   response_text, outcome, run_result, llm_calls, tool_log,
                   decoder>>

\* the application calls agent.set_message_content(message_id, content)
SetMessageContent(message_id, content) ==
    /\ NotRunning
    /\ api_calls < MaxApiCalls
    /\ api_calls' = api_calls + 1
    /\ SetLedger(set_message_content(Ledger, message_id, content))
    /\ UNCHANGED <<system_message_id, user_message_id, function_map,
                   function_names, sandbox, pc, budget, max_steps, step,
                   response_text, outcome, run_result, llm_calls, tool_log,
                   decoder>>

\* the application calls agent.add_functions(tools)
AddFunctions(tools) ==
    /\ NotRunning
    /\ api_calls < MaxApiCalls
    /\ api_calls' = api_calls + 1
    /\ function_map' = add_functions(function_map, tools)
    /\ function_names' = add_function_names(function_names, tools)
    /\ UNCHANGED <<id_to_message, current_message_id, returned_ids,
                   system_message_id, user_message_id, sandbox, pc, budget,
                   max_steps, step, response_text, outcome, run_result,
                   llm_calls, tool_log, decoder>>

\* the application builds an SWEEnvironment on a sandbox whose execute
\* behaves as `mode` and registers its run_bash_cmd and check_patch
AddEnvironment(mode) ==
    /\ NotRunning
    /\ api_calls < MaxApiCalls
    /\ api_calls' = api_calls + 1
    /\ sandbox' = NewSandbox(mode)
    /\ function_map' =
          add_functions(function_map, <<ToolSWEBash, ToolCheckPatch>>)
    /\ function_names' =
          add_function_names(function_names, <<ToolSWEBash, ToolCheckPatch>>)
    /\ UNCHANGED <<id_to_message, current_message_id, returned_ids,
                   system_message_id, user_message_id, pc, budget,
                   max_steps, step, response_text, outcome, run_result,
                   llm_calls, tool_log, decoder>>

\* run without the safety check on max_steps
ClampBudget_NoClamp(n) == n

\* lines 184-186: the safety check on max_steps
ClampBudget(n) == IF n > MAX_STEPS_CEILING THEN MAX_STEPS_CEILING ELSE n

\* run(task, n) up to its for loop: fill the task slot, clamp the budget.
\* The code tests nothing before it starts, so run may be called again on
\* an agent whose run has ended; the ledger is then the one that run left.
\* Calls after the first are explored while the provider calls of all
\* runs together stay within MaxRerunCalls.
RunStart(task, n) ==
    /\ NotRunning
    /\ pc = "idle" \/ llm_calls + n <= MaxRerunCalls
    /\ SetLedger(set_message_content(Ledger, user_message_id, task))
    /\ budget' = n
    /\ max_steps' = ClampBudget(n)
    /\ step' = 0
    /\ pc' = "loop"
    /\ outcome' = "none"
    /\ run_result' = <<>>
    /\ UNCHANGED <<system_message_id, user_message_id, function_map,
                   function_names, sandbox, response_text, llm_calls,
                   tool_log, api_calls, decoder>>

\* The body of run's for loop once the provider has answered `text`, in
\* the order of the source.  Each stage yields the ledger afterwards, how
\* the pass ended, the sandbox tree, the calls made on the model's request
\* and the value returned or the exception raised, if any.

\* the termination check with the guard never consulted
TerminationCheck_IgnoreGuard(L2, fmap, tree, tool_result, call) ==
    [ledger |-> L2, outcome |-> "finish_unguarded", sandbox |-> tree,
     invoked |-> <<call>>, result |-> <<"str", tool_result>>]

\* the termination check with a missing guard taken for a rejecting one
TerminationCheck_GuardRequired(L2, fmap, tree, tool_result, call) ==
    IF "check_patch" \in DOMAIN fmap
       /\ CallTool(fmap["check_patch"], EmptyDict, tree).value = "True"
    THEN [ledger |-> L2, outcome |-> "finish_accepted", sandbox |-> tree,
          invoked |-> <<call>>, result |-> <<"str", tool_result>>]
    ELSE [ledger |-> add_message(L2, "assistant", EmptyPatchMessage),
          outcome |-> "finish_rejected", sandbox |-> tree,
          invoked |-> <<call>>, result |-> <<>>]

\* lines 216-225: the termination check after finish has been invoked; L2
\* is the ledger with the tool entry
TerminationCheck(L2, fmap, tree, tool_result, call) ==
    IF "check_patch" \in DOMAIN fmap
    THEN IF CallTool(fmap["check_patch"], EmptyDict, tree).value = "True"
         THEN [ledger |-> L2, outcome |-> "finish_accepted", sandbox |-> tree,
               invoked |-> <<call>>, result |-> <<"str", tool_result>>]
         ELSE [ledger |-> add_message(L2, "assistant", EmptyPatchMessage),
               outcome |-> "finish_rejected", sandbox |-> tree,
               invoked |-> <<call>>, result |-> <<>>]
    ELSE [ledger |-> L2, outcome |-> "finish_unguarded", sandbox |-> tree,
          invoked |-> <<call>>, result |-> <<"str", tool_result>>]

\* the capability called a second time to obtain the value for the ledger
AfterCall_CalledTwice(L1, fmap, name, call, called) ==
    IF called.raised # ""
    THEN [ledger |-> L1, outcome |-> "tool_raised",
          sandbox |-> called.sandbox, invoked |-> <<call>>,
          result |-> <<"raise", called.raised>>]
    ELSE IF name = "finish"
    THEN TerminationCheck(add_message(L1, "tool", called.value), fmap,
                          called.sandbox, called.value, call)
    ELSE [ledger |-> add_message(L1, "tool", called.value),
          outcome |-> "tool_result", sandbox |-> called.sandbox,
          invoked |-> <<call, call>>, result |-> <<>>]

\* the termination check made before the tool entry is written
AfterCall_CheckBeforeEntry(L1, fmap, name, call, called) ==
    IF called.raised # ""
    THEN [ledger |-> L1, outcome |-> "tool_raised",
          sandbox |-> called.sandbox, invoked |-> <<call>>,
          result |-> <<"raise", called.raised>>]
    ELSE IF name = "finish"
    THEN TerminationCheck(L1, fmap, called.sandbox, called.value, call)
    ELSE [ledger |-> add_message(L1, "tool", called.value),
          outcome |-> "tool_result", sandbox |-> called.sandbox,
          invoked |-> <<call>>, result |-> <<>>]

\* lines 213-216: the capability has been called; L1 is the ledger with the
\* thought entry
AfterCall(L1, fmap, name, call, called) ==
    IF called.raised # ""
    THEN [ledger |-> L1, outcome |-> "tool_raised",
          sandbox |-> called.sandbox, invoked |-> <<call>>,
          result |-> <<"raise", called.raised>>]
    ELSE IF name = "finish"
    THEN TerminationCheck(add_message(L1, "tool", called.value), fmap,
                          called.sandbox, called.value, call)
    ELSE [ledger |-> add_message(L1, "tool", called.value),
          outcome |-> "tool_result", sandbox |-> called.sandbox,
          invoked |-> <<call>>, result |-> <<>>]

\* dispatch that warns about an unknown name without telling the model
Dispatch_SilentUnknown(L1, fmap, tree, text, parsed_response) ==
    IF parsed_response.name \in DOMAIN fmap
    THEN AfterCall(L1, fmap, parsed_response.name,
                   [tool |-> fmap[parsed_response.name],
                    arguments |-> parsed_response.arguments],
                   CallTool(fmap[parsed_response.name],
                            parsed_response.arguments, tree))
    ELSE [ledger |-> L1, outcome |-> "unknown_function", sandbox |-> tree,
          invoked |-> <<>>, result |-> <<>>]

\* lines 212-229: look the decoded name up and call the capability
Dispatch(L1, fmap, tree, text, parsed_response) ==
    IF parsed_response.name \in DOMAIN fmap
    THEN AfterCall(L1, fmap, parsed_response.name,
                   [tool |-> fmap[parsed_response.name],
                    arguments |-> parsed_response.arguments],
                   CallTool(fmap[parsed_response.name],
                            parsed_response.arguments, tree))
    ELSE [ledger |-> add_message(L1, "assistant",
                        InvalidFunctionMessage(parsed_response.name, text)),
          outcome |-> "unknown_function", sandbox |-> tree,
          invoked |-> <<>>, result |-> <<>>]

\* the decoder's ValueError left uncaught
AfterParse_Uncaught(L, fmap, tree, text, parsed_response) ==
    IF parsed_response.error # ""
    THEN [ledger |-> L, outcome |-> "decode_error", sandbox |-> tree,
          invoked |-> <<>>, result |-> <<"raise", "ValueError">>]
    ELSE Dispatch(add_message(L, "assistant", parsed_response.thought),
                  fmap, tree, text, parsed_response)

\* a decode failure that also records the text returned by the provider
AfterParse_EchoResponse(L, fmap, tree, text, parsed_response) ==
    IF parsed_response.error # ""
    THEN [ledger |-> add_message(add_message(L, "assistant", Join(text)),
                                 "assistant", ParseErrorMessage(text)),
          outcome |-> "decode_error", sandbox |-> tree, invoked |-> <<>>,
          result |-> <<>>]
    ELSE Dispatch(add_message(L, "assistant", parsed_response.thought),
                  fmap, tree, text, parsed_response)

\* lines 199-209: the decoder has answered
AfterParse(L, fmap, tree, text, parsed_response) ==
    IF parsed_response.error # ""
    THEN [ledger |-> add_message(L, "assistant", ParseErrorMessage(text)),
          outcome |-> "decode_error", sandbox |-> tree, invoked |-> <<>>,
          result |-> <<>>]
    ELSE Dispatch(add_message(L, "assistant", parsed_response.thought),
                  fmap, tree, text, parsed_response)

IterationEffect(L, fmap, tree, text) ==
    AfterParse(L, fmap, tree, text, parse(text))

\* one iteration of run's for loop: the provider answers `text`
RunIteration(text) ==
    /\ pc = "loop"
    /\ step < max_steps
    /\ LET e == IterationEffect(Ledger, function_map, sandbox, text)
       IN  /\ SetLedger(e.ledger)
           /\ outcome' = e.outcome
           /\ sandbox' = e.sandbox
           /\ tool_log' = tool_log \o e.invoked
           /\ run_result' = e.result
           /\ pc' = IF e.result = <<>> THEN "loop"
                    ELSE IF e.result[1] = "raise" THEN "raised"
                    ELSE "returned"
    /\ step' = step + 1
    /\ llm_calls' = llm_calls + 1
    /\ response_text' = text
    /\ UNCHANGED <<system_message_id, user_message_id, function_map,
                   function_names, budget, max_steps, api_calls, decoder>>

\* a loop that has no exit when the budget is used up
RunExhausted_Never == FALSE /\ UNCHANGED vars

\* the for loop is exhausted: self.finish(...) is called, its value dropped,
\* and run falls off its end
RunExhausted ==
    /\ pc = "loop"
    /\ step >= max_steps
    /\ LET dropped == finish(ExhaustedMessage)
       IN  run_result' = <<"None">>
    /\ pc' = "returned"
    /\ outcome' = "exhausted"
    /\ UNCHANGED <<id_to_message, current_message_id, returned_ids,
                   system_message_id, user_message_id, function_map,
                   function_names, sandbox, budget, max_steps, step,
                   response_text, llm_calls, tool_log, api_calls, decoder>>

Next ==
    \/ \E role \in ApiRoles, content \in ApiContents :
          AddMessage(role, content)
    \/ \E message_id \in -1..Len(id_to_message), content \in SetContents :
          SetMessageContent(message_id, content)
    \/ \E tools \in ToolLists : AddFunctions(tools)
    \/ \E mode \in ExecuteModes : AddEnvironment(mode)
    \/ \E task \in Tasks, n \in 0..MaxBudget : RunStart(task, n)
    \/ \E text \in Responses : RunIteration(text)
    \/ RunExhausted

Spec == Init /\ [][Next]_vars

\* Runs with budgets around the ceiling.  The provider gives the same text
\* at every call of a run, so that runs of 100 iterations stay explorable.
RunIterationSteady(text) ==
    /\ step = 0 \/ text = response_text
    /\ RunIteration(text)

NextCeiling ==
    \/ \E tools \in ToolLists : AddFunctions(tools)
    \/ \E task \in Tasks, n \in CeilingBudgets : RunStart(task, n)
    \/ \E text \in Responses : RunIterationSteady(text)
    \/ RunExhausted

SpecCeiling == Init /\ [][NextCeiling]_vars

\* Runs under the assumption that every provider call and every capability
\* call comes back: an iteration that can be taken is taken in the end.
\* Budgets are the small ones, with every sequence of provider outputs,
\* and one above the ceiling, where the provider gives the same
\* undecodable text at every call of the run.
LiveBudgets == (0..MaxBudget) \cup {MAX_STEPS_CEILING + 1}

RunIterationLive(text) ==
    /\ max_steps <= MaxBudget \/ text = RespNoEnd
    /\ RunIteration(text)

\* the next step of run: an iteration, or leaving the exhausted loop
RunProgress ==
    \/ \E text \in Responses : RunIterationLive(text)
    \/ RunExhausted

NextLive ==
    \/ \E tools \in ToolLists : AddFunctions(tools)
    \/ \E task \in Tasks, n \in LiveBudgets : RunStart(task, n)
    \/ \E text \in Responses : RunIterationLive(text)
    \/ RunExhausted

SpecLive == Init /\ [][NextLive]_vars /\ WF_vars(RunProgress)

\* Runs and application calls for the transcript: entries of every kind
\* (corrective, thought, tool, application entries of role user and
\* system) and writes to any slot
TranscriptResponses == {RespNoEnd, RespUnknown, RespTouch, RespFinish("r1")}
TranscriptRoles == {"user", "system"}

NextTranscript ==
    \/ \E role \in TranscriptRoles, content \in ApiContents :
          AddMessage(role, content)
    \/ \E message_id \in -1..Len(id_to_message), content \in SetContents :
          SetMessageContent(message_id, content)
    \/ \E tools \in ToolLists : AddFunctions(tools)
    \/ \E task \in Tasks, n \in 0..MaxBudget : RunStart(task, n)
    \/ \E text \in TranscriptResponses : RunIteration(text)
    \/ RunExhausted

SpecTranscript == Init /\ [][NextTranscript]_vars

\* Calls of the application on an agent that is not running: tool lists
\* with a second callable named finish, with two tools of one name, with
\* the agent's own finish again, and the empty list
ApiToolLists ==
    {<<>>, <<ToolDumbBash>>, <<ToolSWEBash, ToolCheckPatch>>,
     <<ToolUserFinish>>, <<ToolDumbBash, ToolSWEBash>>,
     <<ToolUserFinish, ToolFinish>>}

\* what the application writes into the ledger between registrations
ApiSpecRoles == {"user", "system", "assistant", "tool"}
ApiSpecContents == {"note", "memo"}

NextApi ==
    \/ \E role \in ApiSpecRoles, content \in ApiSpecContents :
          AddMessage(role, content)
    \/ \E message_id \in -1..Len(id_to_message),
          content \in ApiSpecContents :
          SetMessageContent(message_id, content)
    \/ \E tools \in ApiToolLists : AddFunctions(tools)

SpecApi == Init /\ [][NextApi]_vars

\* ------------------------------------------------------------------------
\* Direct calls of ResponseParser.parse
\* ------------------------------------------------------------------------
Markers == {BEGIN_CALL, END_CALL, ARG_SEP, VALUE_SEP}

\* a marker short of its opening dashes: written directly after a marker
\* it spells a second marker that shares the closing dashes of the first
MarkerTail(marker) == Tail(marker)

\* the pieces of the short texts: every marker, every marker short of its
\* opening dashes, a line break, a space and a word
Alphabet ==
    Markers \cup {MarkerTail(marker) : marker \in Markers}
        \cup {<<"\n">>, <<" ">>, <<"f">>}

RECURSIVE Concat(_)
\* the pieces written one after the other
Concat(pieces) ==
    IF pieces = <<>> THEN <<>> ELSE Head(pieces) \o Concat(Tail(pieces))

\* the ways to write a text of n pieces
Pieces(n) == [1..n -> Alphabet]

\* the parts of a call written after the template
Thoughts == {<<>>, <<"think">>, <<" ", "\n", "think", "\n", "more">>}
Names == {<<"f">>, <<"my", " ", "tool">>}
ArgNames == {<<"a">>, <<"b">>}
ArgValues == {<<>>, <<"1">>, <<"x", "\n", " ", "y">>}
Arg == [name : ArgNames, value : ArgValues]
ArgLists(n) == UNION {[1..k -> Arg] : k \in 0..n}

\* whitespace between the parts; the template has one line break
TemplatePad == <<"\n">>
Pads == {TemplatePad, <<"\n", "\n">>, <<" ">>, <<" ", "\n", "\t">>}

\* the ARG/VALUE blocks of a call from the i-th on; the block numbered
\* dropped is written without its VALUE marker
RECURSIVE EncodeArgs(_, _, _, _, _)
EncodeArgs(args, after, before, dropped, i) ==
    IF args = <<>> THEN <<>>
    ELSE ARG_SEP \o after \o Head(args).name \o before
             \o (IF i = dropped THEN <<>> ELSE VALUE_SEP \o after)
             \o Head(args).value \o before
             \o EncodeArgs(Tail(args), after, before, dropped, i + 1)

\* a call block in the layout of response_format: `after` follows every
\* marker, `before` follows the name, every argument name and every value
EncodeCall(name, args, after, before, dropped) ==
    BEGIN_CALL \o after \o name \o before
        \o EncodeArgs(args, after, before, dropped, 1) \o END_CALL

\* a response: the thought, then the call block
Encode(thought, name, args, after, before, dropped) ==
    thought \o before \o EncodeCall(name, args, after, before, dropped)

\* an earlier complete call the model abandoned, and the text after it
FirstCalls ==
    {[name |-> <<"finish">>, args |-> <<>>],
     [name |-> <<"g">>, args |-> <<[name |-> <<"c">>, value |-> <<"9">>]>>]}
Middles == {<<"\n">>, <<"\n", "more", " ", "thoughts", "\n">>}

\* the END marker short of its opening dashes
EndTail == MarkerTail(END_CALL)

\* texts written after the END marker of a response, none of which holds
\* an END marker: plain words, an unfinished later call block, a stray
\* ARG/VALUE block, and the END marker short of its opening dashes
Tails ==
    {<<"\n", "more">>,
     <<"\n">> \o BEGIN_CALL \o <<"\n", "g", "\n">> \o ARG_SEP \o <<"\n", "c">>,
     <<"\n">> \o ARG_SEP \o <<"\n", "c", "\n">> \o VALUE_SEP \o <<"\n", "9">>,
     EndTail,
     EndTail \o <<"\n", "more">>}

\* ----ARG, after which an ARG marker makes ----ARG----ARG----
ArgHead == SubSeq(ARG_SEP, 1, MarkerLen(ARG_SEP) - 1)

\* what may stand where a function name is expected, nothing included
SharedNames == Names \cup {<<>>}
\* a line break after the name and after every argument name and value,
\* or nothing
SharedPads == {TemplatePad, <<>>}

\* the ARG/VALUE blocks of a call from the i-th on, the ARG marker of the
\* block numbered shared written twice, the second occurrence starting
\* with the closing dashes of the first
RECURSIVE EncodeSharedArgs(_, _, _, _)
EncodeSharedArgs(args, before, shared, i) ==
    IF args = <<>> THEN <<>>
    ELSE (IF i = shared THEN ArgHead ELSE <<>>)
             \o EncodeArgs(<<Head(args)>>, TemplatePad, before, 0, 1)
             \o EncodeSharedArgs(Tail(args), before, shared, i + 1)

\* a response whose block numbered shared starts with ----ARG----ARG----
EncodeShared(thought, name, args, before, shared) ==
    thought \o before \o BEGIN_CALL \o TemplatePad \o name \o before
        \o EncodeSharedArgs(args, before, shared, 1) \o END_CALL

\* values that are no str
Objects == {PyNone, PyInt, PyBytes(Encode(<<"think">>, <<"f">>, <<>>,
                                         TemplatePad, TemplatePad, 0))}

\* the variables of the agent, which a direct call of parse leaves alone
agent_vars ==
    <<id_to_message, current_message_id, returned_ids, system_message_id,
      user_message_id, function_map, function_names, sandbox, pc, budget,
      max_steps, step, response_text, outcome, run_result, llm_calls,
      tool_log, api_calls>>

\* parser.parse(obj), recorded with the parts obj was built from
Decoded(case, obj, thought, name, args, after, before, dropped, first, middle) ==
    [case |-> case, input |-> obj, result |-> parse_checked(obj),
     thought |-> thought, name |-> name, args |-> args, after |-> after,
     before |-> before, dropped |-> dropped, first |-> first,
     middle |-> middle]

\* Each behaviour makes one direct call: parse keeps no state between
\* calls.

\* parse on an arbitrary short text, of at most MaxTextLen pieces
ParseText ==
    /\ decoder.case = "none"
    /\ \E n \in 0..MaxTextLen :
          \E pieces \in Pieces(n) :
             decoder' = Decoded("text", PyStr(Concat(pieces)), <<>>, <<>>,
                                <<>>, <<>>, <<>>, 0, <<>>, <<>>)
    /\ UNCHANGED agent_vars

\* parse on a well-formed response
ParseCall ==
    /\ decoder.case = "none"
    /\ \E thought \in Thoughts, name \in Names, args \in ArgLists(MaxArgs),
          after \in Pads, before \in Pads :
          decoder' = Decoded("call",
                             PyStr(Encode(thought, name, args, after,
                                          before, 0)),
                             thought, name, args, after, before, 0, <<>>,
                             <<>>)
    /\ UNCHANGED agent_vars

\* parse on a response with an earlier complete call before the last one
ParseTwoCalls ==
    /\ decoder.case = "none"
    /\ \E thought \in Thoughts, first \in FirstCalls, middle \in Middles,
          name \in Names, args \in ArgLists(MaxArgs) :
          decoder' = Decoded("two_calls",
                             PyStr(thought \o TemplatePad
                                   \o EncodeCall(first.name, first.args,
                                                 TemplatePad, TemplatePad, 0)
                                   \o middle
                                   \o EncodeCall(name, args, TemplatePad,
                                                 TemplatePad, 0)),
                             thought, name, args, TemplatePad, TemplatePad,
                             0, first, middle)
    /\ UNCHANGED agent_vars

\* parse on a response whose ARG block numbered dropped has no VALUE marker
ParseDangling ==
    /\ decoder.case = "none"
    /\ \E thought \in Thoughts, name \in Names, args \in ArgLists(MaxArgs) :
          \E dropped \in 1..Len(args) :
             decoder' = Decoded("dangling",
                                PyStr(Encode(thought, name, args,
                                             TemplatePad, TemplatePad,
                                             dropped)),
                                thought, name, args, TemplatePad,
                                TemplatePad, dropped, <<>>, <<>>)
    /\ UNCHANGED agent_vars

\* parse on a well-formed response with more text written after it
ParseAppended ==
    /\ decoder.case = "none"
    /\ \E thought \in Thoughts, name \in Names, args \in ArgLists(MaxArgs),
          tail \in Tails :
          decoder' = Decoded("appended",
                             PyStr(Encode(thought, name, args, TemplatePad,
                                          TemplatePad, 0)
                                   \o tail),
                             thought, name, args, TemplatePad, TemplatePad,
                             0, <<>>, tail)
    /\ UNCHANGED agent_vars

\* parse on a response in which two ARG markers share their dashes
ParseShared ==
    /\ decoder.case = "none"
    /\ \E thought \in Thoughts, name \in SharedNames,
          args \in ArgLists(MaxArgs), before \in SharedPads :
          \E shared \in 1..Len(args) :
             decoder' = Decoded("shared",
                                PyStr(EncodeShared(thought, name, args,
                                                   before, shared)),
                                thought, name, args, TemplatePad, before,
                                shared, <<>>, <<>>)
    /\ UNCHANGED agent_vars

\* parse on a value that is no str
ParseObject ==
    /\ decoder.case = "none"
    /\ \E obj \in Objects :
          decoder' = Decoded("object", obj, <<>>, <<>>, <<>>, <<>>, <<>>, 0,
                             <<>>, <<>>)
    /\ UNCHANGED agent_vars

NextParser ==
    \/ ParseText
    \/ ParseCall
    \/ ParseTwoCalls
    \/ ParseDangling
    \/ ParseAppended
    \/ ParseShared
    \/ ParseObject

SpecParser == Init /\ [][NextParser]_vars

\* ------------------------------------------------------------------------
\* Properties
\* ------------------------------------------------------------------------
LastEntry == id_to_message[Len(id_to_message)]

\* this step is an iteration of run's loop
IterationStep == llm_calls' = llm_calls + 1

\* the text decodes to a call of finish that carries exactly its result
IsFinishCall(text) ==
    /\ parse(text).error = ""
    /\ parse(text).name = "finish"
    /\ DOMAIN parse(text).arguments = {"result"}

\* the text decodes to a call of a name that is registered
IsRegisteredCall(text) ==
    /\ parse(text).error = ""
    /\ parse(text).name \in DOMAIN function_map

Entry(role, content, id) ==
    [role |-> role, content |-> content, unique_id |-> id]

\* C1: with check_patch registered, an iteration that decodes to finish
\* while the guard reports false leaves run in its loop, with a corrective
\* entry appended after the thought and the tool entry; an iteration that
\* decodes to finish while the guard reports true ends run, which returns
\* the result argument of that very call.
C1_GuardedFinish ==
    [][(/\ IterationStep
        /\ "check_patch" \in DOMAIN function_map
        /\ IsFinishCall(response_text'))
       => IF check_patch(sandbox)
          THEN /\ pc' = "returned"
               /\ run_result' =
                     <<"str", parse(response_text').arguments["result"]>>
          ELSE /\ pc' = "loop"
               /\ run_result' = <<>>
               /\ Len(id_to_message') = Len(id_to_message) + 3
               /\ id_to_message'[Len(id_to_message')] =
                     Entry("assistant", EmptyPatchMessage,
                           Len(id_to_message) + 2)]_vars

\* a finish carrying r1 was rejected by the guard, a later finish carrying
\* r2 was accepted and run returned r2
C1_Witness ==
    /\ pc = "returned"
    /\ outcome = "finish_accepted"
    /\ run_result = <<"str", "r2">>
    /\ \E i \in 2..Len(id_to_message) :
          /\ id_to_message[i].content = EmptyPatchMessage
          /\ id_to_message[i - 1] = Entry("tool", "r1", i - 2)

\* C2: when the step budget is exhausted, run returns the sentinel string,
\* the result of the implicit finish, whatever the budget.
C2_ExhaustionReturnsSentinel ==
    outcome = "exhausted"
        => pc = "returned" /\ run_result = <<"str", finish(ExhaustedMessage)>>

\* C3: a capability that raises does not end run: a tool entry with the
\* error is appended and the loop goes on.
C3_CapabilityFailureCaught ==
    outcome = "tool_raised"
        => pc = "loop" /\ run_result = <<>> /\ LastEntry.role = "tool"

\* C4: the provider is never called more than min(N, 100) times, and a run
\* of budget N that no iteration ends has called it exactly min(N, 100)
\* times.
C4_ProviderCalls ==
    LET limit == IF budget <= MAX_STEPS_CEILING THEN budget
                 ELSE MAX_STEPS_CEILING
    IN  /\ llm_calls <= limit
        /\ outcome = "exhausted" => llm_calls = limit

\* a budget above the ceiling has been used up
C4_Witness ==
    /\ outcome = "exhausted"
    /\ budget = MAX_STEPS_CEILING + 1
    /\ llm_calls = MAX_STEPS_CEILING

\* C5: an iteration whose text the decoder rejects appends exactly one
\* entry, made of the protocol template and the raw text, invokes nothing,
\* uses up one step and leaves run in its loop.
C5_DecodeFailureRecovered ==
    [][(IterationStep /\ parse(response_text').error # "")
       => /\ pc' = "loop"
          /\ run_result' = <<>>
          /\ step' = step + 1
          /\ tool_log' = tool_log
          /\ sandbox' = sandbox
          /\ id_to_message' =
                Append(id_to_message,
                       Entry("assistant",
                             "The previous response could not be parsed. The correct response format is:\n"
                             \o response_format \o "\n\nInvalid response:\n"
                             \o Join(response_text'),
                             Len(id_to_message)))]_vars

\* three iterations in a row failed to decode, each in a different way, and
\* run is still in its loop
C5_Witness ==
    /\ pc = "loop"
    /\ step = 3
    /\ Len(id_to_message) = 5
    /\ id_to_message[3].content = ParseErrorMessage(RespNoBegin)
    /\ id_to_message[4].content = ParseErrorMessage(RespMalformed)
    /\ id_to_message[5].content = ParseErrorMessage(RespNoName)
    /\ parse(RespNoEnd).error = ErrNoEnd
    /\ parse(RespNoBegin).error = ErrNoBegin
    /\ parse(RespMalformed).error = ErrMalformed
    /\ parse(RespNoName).error = ErrNoName

\* C6: an iteration that decodes to a name outside the registry invokes
\* nothing, appends the thought and a corrective entry that names the
\* function, and leaves run in its loop.
C6_UnknownFunctionRecovered ==
    [][(/\ IterationStep
        /\ parse(response_text').error = ""
        /\ parse(response_text').name \notin DOMAIN function_map)
       => /\ pc' = "loop"
          /\ run_result' = <<>>
          /\ tool_log' = tool_log
          /\ id_to_message' =
                id_to_message
                \o <<Entry("assistant", parse(response_text').thought,
                           Len(id_to_message)),
                     Entry("assistant",
                           "The previous response called an invalid function: '"
                           \o parse(response_text').name
                           \o "'. The available tools are described in the system prompt.\n\nInvalid response:\n"
                           \o Join(response_text'),
                           Len(id_to_message) + 1)>>]_vars

\* the provider named the unregistered function submit in a text whose
\* thought mentions finish, and run is still in its loop
C6_Witness ==
    /\ pc = "loop"
    /\ outcome = "unknown_function"
    /\ response_text = RespUnknown
    /\ "finish" \in DOMAIN function_map

\* C7: an iteration makes exactly one call, of the decoded name with the
\* decoded arguments, when the text decodes to a registered name, and none
\* otherwise; no other step calls a capability for the model; so the calls
\* never outnumber the provider calls.
C7_OneCallPerDecodedCall ==
    /\ [](Len(tool_log) <= llm_calls)
    /\ [][IF IterationStep
          THEN tool_log' =
                 tool_log
                 \o IF IsRegisteredCall(response_text')
                    THEN <<[tool |->
                              function_map[parse(response_text').name],
                            arguments |-> parse(response_text').arguments]>>
                    ELSE <<>>
          ELSE tool_log' = tool_log]_vars

\* three provider calls of which two led to a call and one did not
C7_Witness ==
    /\ pc = "loop"
    /\ llm_calls = 3
    /\ Len(tool_log) = 2
    /\ tool_log[1].tool = ToolSWEBash
    /\ tool_log[1].arguments = [command |-> CmdTouch]

\* C8: without check_patch registered, an iteration that decodes to finish
\* ends run, which returns the result argument of the call; after that no
\* provider call and no capability call is made and nothing is appended
\* to the ledger, until the application appends an entry itself or calls
\* run again.
C8_UnguardedFinish ==
    /\ [][(/\ IterationStep
           /\ "check_patch" \notin DOMAIN function_map
           /\ IsFinishCall(response_text'))
          => /\ pc' = "returned"
             /\ outcome' = "finish_unguarded"
             /\ run_result' =
                   <<"str", parse(response_text').arguments["result"]>>]_vars
    /\ [][(pc = "returned" /\ outcome = "finish_unguarded")
          => /\ llm_calls' = llm_calls
             /\ tool_log' = tool_log
             /\ Len(id_to_message') = Len(id_to_message)
                \/ api_calls' = api_calls + 1
             /\ \/ /\ pc' = "returned"
                   /\ run_result' = run_result
                   /\ \/ id_to_message' = id_to_message
                      \/ api_calls' = api_calls + 1
                \/ /\ pc' = "loop"
                   /\ step' = 0
                   /\ run_result' = <<>>]_vars

\* run returned r2 from an unguarded finish in its second iteration, with
\* budget to spare
C8_Witness ==
    /\ pc = "returned"
    /\ outcome = "finish_unguarded"
    /\ run_result = <<"str", "r2">>
    /\ step = 2
    /\ step < max_steps
    /\ LastEntry = Entry("tool", "r2", Len(id_to_message) - 1)

\* C9: add_message has returned 0, 1, 2, ... in this order, one id per
\* entry; every entry's unique_id is its position; current_message_id is
\* the ledger length minus one.
C9_MonotonicIds ==
    /\ Len(returned_ids) = Len(id_to_message)
    /\ \A i \in 1..Len(returned_ids) : returned_ids[i] = i - 1
    /\ \A i \in 1..Len(id_to_message) : id_to_message[i].unique_id = i - 1
    /\ current_message_id = Len(id_to_message) - 1

\* entries appended by the constructor, by the application and by run
C9_Witness ==
    /\ Len(id_to_message) >= 6
    /\ api_calls >= 1
    /\ llm_calls >= 2
    /\ \E i \in 1..Len(id_to_message) : id_to_message[i].role = "tool"
    /\ \E i \in 1..Len(id_to_message) : id_to_message[i].content = "note"

\* C10: the content of an entry that is neither the system slot nor the
\* task slot never changes once the entry is in the ledger.
C10_NonSlotContentFrozen ==
    [][\A i \in 1..Len(id_to_message) :
          (i - 1) \notin {system_message_id, user_message_id}
             => /\ i <= Len(id_to_message')
                /\ id_to_message'[i].content = id_to_message[i].content]_vars

\* the blocks of a sequence of ledger entries, one after the other
RECURSIVE RenderedBlocks(_)
RenderedBlocks(entries) ==
    IF entries = <<>> THEN ""
    ELSE message_id_to_context(id_to_message, function_map, function_names,
                               Head(entries).unique_id)
             \o RenderedBlocks(Tail(entries))

IsNonSlotEntry(e) ==
    e.unique_id # system_message_id /\ e.unique_id # user_message_id

\* the ledger with both slots holding other contents
SlotsRewritten ==
    set_message_content(
        set_message_content(Ledger, system_message_id, "another prompt"),
        user_message_id, "another task")

\* C11: in every reachable state the transcript of get_context is the
\* rendered blocks of exactly the ledger entries whose id is neither
\* system_message_id nor user_message_id, in the ascending id order of the
\* ledger with none left out, and it does not depend on what the system and
\* task slots hold: with other contents in both slots the transcript is the
\* same text.
C11_TranscriptExcludesSlots ==
    /\ Transcript = RenderedBlocks(SelectSeq(id_to_message, IsNonSlotEntry))
    /\ \A i \in 1..Len(id_to_message) : id_to_message[i].unique_id = i - 1
    /\ get_context(SlotsRewritten, system_message_id, user_message_id,
                   function_map, function_names, 0) = Transcript

\* a run has written the task into its slot, and the transcript renders an
\* entry of role system the application added and the entries of the run
C11_Witness ==
    /\ pc = "loop"
    /\ id_to_message[user_message_id + 1].content \in Tasks
    /\ Len(SelectSeq(id_to_message, IsNonSlotEntry)) >= 2
    /\ \E i \in 1..Len(id_to_message) :
          IsNonSlotEntry(id_to_message[i]) /\ id_to_message[i].role = "system"
    /\ LastEntry.role = "tool"
    /\ Transcript # ""

\* ------------------------------------------------------------------------
\* Properties of ResponseParser.parse (under SpecParser)
\* ------------------------------------------------------------------------
\* parse has been called on a str
DecodedText ==
    decoder.case \in {"text", "call", "two_calls", "dangling", "appended",
                      "shared"}

\* The structure of a text read forwards, positions counted from 1.
\* the marker occurs in the text with its first token at position i
Occurs(text, marker, i) ==
    /\ i >= 1
    /\ i + Len(marker) - 1 <= Len(text)
    /\ SubSeq(text, i, i + Len(marker) - 1) = marker
HasEnd(text) == \E i \in 1..Len(text) : Occurs(text, END_CALL, i)
\* position of the last END marker
LastEnd(text) == Max({i \in 1..Len(text) : Occurs(text, END_CALL, i)})
\* a BEGIN marker lies wholly before the last END marker
HasBegin(text) ==
    LET hi == LastEnd(text)
    IN  \E i \in 1..(hi - Len(BEGIN_CALL)) : Occurs(text, BEGIN_CALL, i)
\* position of the last BEGIN marker that lies wholly before the last END
\* marker
LastBegin(text) ==
    LET hi == LastEnd(text)
    IN  Max({i \in 1..(hi - Len(BEGIN_CALL)) : Occurs(text, BEGIN_CALL, i)})
HasBlock(text) == HasEnd(text) /\ HasBegin(text)
\* position of the first token after that BEGIN marker
BlockStart(text) == LastBegin(text) + Len(BEGIN_CALL)

\* two markers of the text share their dashes: one starts with the dashes
\* the other ends with
SharesDashes(text) ==
    \E i \in 1..Len(text) :
        /\ text[i] = Dashes
        /\ \E first \in Markers : Occurs(text, first, i - Len(first) + 1)
        /\ \E second \in Markers : Occurs(text, second, i)

\* The block as the claims read it: every ARG marker that lies between
\* the BEGIN and the END marker counts.
\* the ARG marker at position i has no VALUE marker between it and the
\* next ARG marker of the block or, after the last one, the closing END
\* marker
IsDangling(text, i) ==
    /\ Occurs(text, ARG_SEP, i)
    /\ LET hi == LastEnd(text)
       IN  \A j \in (i + 1)..(hi - 1) :
              Occurs(text, VALUE_SEP, j) =>
                 \E k \in (i + 1)..(j - 1) : Occurs(text, ARG_SEP, k)
HasDanglingArg(text) ==
    /\ HasBlock(text)
    /\ LET lo == BlockStart(text)
           hi == LastEnd(text)
       IN  \E i \in lo..(hi - Len(ARG_SEP)) : IsDangling(text, i)
\* position of the first ARG marker that lies between the BEGIN and the
\* END marker, of the END marker when there is none
FirstArgMarker(text) ==
    LET lo == BlockStart(text)
        hi == LastEnd(text)
    IN  Min({k \in lo..(hi - Len(ARG_SEP)) : Occurs(text, ARG_SEP, k)}
            \cup {hi})

\* The block as the backward scan reads it, lo the position of the first
\* token after the BEGIN marker and hi the position of the END marker.
RECURSIVE Consumed(_, _, _, _)
\* The ARG marker at position i is one the scan consumes: it lies wholly
\* between the end of BEGIN and the right boundary of its turn, the END
\* marker or the ARG marker consumed before it.  A boundary that starts
\* after i and before the end of the marker at i starts with its closing
\* dashes.
Consumed(text, lo, hi, i) ==
    /\ Occurs(text, ARG_SEP, i)
    /\ i >= lo
    /\ i + Len(ARG_SEP) <= hi
    /\ ~Consumed(text, lo, hi, i + Len(ARG_SEP) - 1)
\* the right boundary when the ARG marker at position i is consumed
RightBoundary(text, lo, hi, i) ==
    Min({k \in (i + 1)..(hi - 1) : Consumed(text, lo, hi, k)} \cup {hi})
\* the consumed ARG marker at position i has no VALUE marker wholly
\* between its end and its right boundary
LacksValue(text, lo, hi, i) ==
    /\ Consumed(text, lo, hi, i)
    /\ \A j \in (i + Len(ARG_SEP))..
                  (RightBoundary(text, lo, hi, i) - Len(VALUE_SEP)) :
          ~Occurs(text, VALUE_SEP, j)
HasConsumedDangling(text) ==
    /\ HasBlock(text)
    /\ LET lo == BlockStart(text)
           hi == LastEnd(text)
       IN  \E i \in lo..(hi - 1) : LacksValue(text, lo, hi, i)
\* the right boundary when the scan ends: the position of the first
\* consumed ARG marker, of the END marker when none is consumed
NameWindowEnd(text) ==
    LET lo == BlockStart(text)
        hi == LastEnd(text)
    IN  Min({k \in lo..(hi - 1) : Consumed(text, lo, hi, k)} \cup {hi})

\* nothing but whitespace between the BEGIN marker and position end
NameBlank(text, end) ==
    LET lo == BlockStart(text)
    IN  \A i \in lo..(end - 1) : text[i] \in Whitespace

\* the first non-blank line between the BEGIN marker and position end,
\* trimmed, read forwards: from the first token that is no whitespace to
\* the last such token before the next line break
NameRead(text, end) ==
    LET lo == BlockStart(text)
        p == Min({k \in lo..(end - 1) : text[k] \notin Whitespace})
        brk == Min({k \in p..(end - 1) : text[k] = "\n"} \cup {end})
        q == Max({k \in p..(brk - 1) : text[k] \notin Whitespace})
    IN  Join(SubSeq(text, p, q))

\* the argument names of a written call are pairwise different
DistinctNames(args) ==
    \A i, j \in 1..Len(args) : args[i].name = args[j].name => i = j

\* the argument map a call with pairwise different names stands for
ArgumentMap(args) ==
    [n \in {Join(args[i].name) : i \in 1..Len(args)} |->
        Join(args[CHOOSE i \in 1..Len(args) : Join(args[i].name) = n].value)]

\* block i is the first block of the call that carries its name
IsFirstOfName(args, i) == \A k \in 1..(i - 1) : args[k].name # args[i].name

Reverse(seq) == [i \in 1..Len(seq) |-> seq[Len(seq) + 1 - i]]

\* C12: when the last call block of a text has two or more ARG/VALUE
\* blocks with the same trimmed argument name and different values, the
\* decoded argument map holds under that name the value of the block
\* nearest to BEGIN, the first in reading order, and not that of a later
\* one.
C12_FirstDuplicateWins ==
    decoder.case = "call" =>
        \A i, j \in 1..Len(decoder.args) :
            (/\ i < j
             /\ IsFirstOfName(decoder.args, i)
             /\ decoder.args[j].name = decoder.args[i].name
             /\ decoder.args[j].value # decoder.args[i].value)
            => /\ decoder.result.error = ""
               /\ decoder.result.arguments[Join(decoder.args[i].name)]
                     = Join(decoder.args[i].value)
               /\ decoder.result.arguments[Join(decoder.args[i].name)]
                     # Join(decoder.args[j].value)

\* a call with argument a written twice, "1" first and a two-line value
\* second, has been decoded
C12_Witness ==
    /\ decoder.case = "call"
    /\ decoder.args = <<[name |-> <<"a">>, value |-> <<"1">>],
                        [name |-> <<"a">>, value |-> <<"x", "\n", " ", "y">>]>>
    /\ decoder.result.arguments = [n \in {"a"} |-> "1"]

\* C13: on a text with an earlier complete call block followed by a
\* second complete call block, the name and the argument map returned are
\* those of the second block: the name of the earlier block is not
\* returned and none of its arguments is in the map.
C13_LastBlockOnly ==
    decoder.case = "two_calls" =>
        /\ decoder.result.error = ""
        /\ decoder.result.name = Join(decoder.name)
        /\ DOMAIN decoder.result.arguments
              = {Join(decoder.args[i].name) : i \in 1..Len(decoder.args)}
        /\ \A i \in 1..Len(decoder.args) :
              IsFirstOfName(decoder.args, i) =>
                 decoder.result.arguments[Join(decoder.args[i].name)]
                    = Join(decoder.args[i].value)
        /\ decoder.result.name # Join(decoder.first.name)
        /\ \A i \in 1..Len(decoder.first.args) :
              Join(decoder.first.args[i].name)
                 \notin DOMAIN decoder.result.arguments

\* an earlier call g(c = 9) and a last call f(a = 1) have been decoded
C13_Witness ==
    /\ decoder.case = "two_calls"
    /\ decoder.first.name = <<"g">>
    /\ Len(decoder.first.args) = 1
    /\ decoder.name = <<"f">>
    /\ decoder.args = <<[name |-> <<"a">>, value |-> <<"1">>]>>
    /\ decoder.result.name = "f"
    /\ decoder.result.arguments = [n \in {"a"} |-> "1"]

\* C14 as stated: if between the last BEGIN and the last END some ARG
\* marker has no VALUE marker before the next ARG marker or the END, parse
\* raises the malformed-block error, whether or not the other ARG/VALUE
\* blocks of the call are well formed; it returns no result that leaves
\* the argument out.
C14_DanglingArgRaises ==
    DecodedText =>
        (HasDanglingArg(decoder.input.value)
            => decoder.result.error = ErrMalformed)

\* C14: if some ARG marker that the backward scan consumes, one lying
\* wholly between the end of the last BEGIN and the right boundary of its
\* turn (the last END, then the ARG marker consumed before), has no VALUE
\* marker wholly between its end and that boundary, parse raises the
\* malformed-block error, whether or not the other ARG/VALUE blocks are
\* well formed, and it raises that error for no other text: an ARG marker
\* the scan does not consume raises nothing.  In a text where no two
\* markers share their dashes the consumed ARG markers are all the ARG
\* markers between the last BEGIN and the last END, so each of them
\* without a VALUE marker before the next ARG marker or the END raises the
\* error.
C14_ConsumedDanglingArgRaises ==
    DecodedText =>
        /\ HasConsumedDangling(decoder.input.value)
              <=> decoder.result.error = ErrMalformed
        /\ (/\ HasDanglingArg(decoder.input.value)
            /\ ~SharesDashes(decoder.input.value))
              => decoder.result.error = ErrMalformed

\* a call with two blocks, the first without its VALUE marker and the
\* second well formed, has been rejected
C14_Witness ==
    /\ decoder.case = "dangling"
    /\ Len(decoder.args) = 2
    /\ decoder.dropped = 1
    /\ HasConsumedDangling(decoder.input.value)
    /\ ~LacksValue(decoder.input.value,
                   BlockStart(decoder.input.value),
                   LastEnd(decoder.input.value),
                   Max({i \in 1..Len(decoder.input.value) :
                           Occurs(decoder.input.value, ARG_SEP, i)}))
    /\ decoder.result.error = ErrMalformed

\* the decoder's result on the call of the present state written with the
\* arguments in the opposite order
ReversedResult ==
    parse_checked(PyStr(Encode(decoder.thought, decoder.name,
                               Reverse(decoder.args), decoder.after,
                               decoder.before, 0)))

\* C15: round trip.  A function name on one line and an argument map of
\* pairwise different names, none with a marker or with whitespace at
\* either end, values possibly of several lines, written in the protocol
\* template after a marker-free thought and handed to parse, come back as
\* exactly that name and exactly that map, in whichever order the
\* arguments are written.
C15_RoundTrip ==
    (/\ decoder.case = "call"
     /\ decoder.after = TemplatePad
     /\ decoder.before = TemplatePad
     /\ DistinctNames(decoder.args))
    => /\ decoder.result.error = ""
       /\ decoder.result.name = Join(decoder.name)
       /\ decoder.result.arguments = ArgumentMap(decoder.args)
       /\ ReversedResult.name = decoder.result.name
       /\ ReversedResult.arguments = decoder.result.arguments

\* the call "my tool"(b = two lines, a = "1") has made the round trip
C15_Witness ==
    /\ decoder.case = "call"
    /\ decoder.after = TemplatePad
    /\ decoder.before = TemplatePad
    /\ decoder.thought # <<>>
    /\ decoder.name = <<"my", " ", "tool">>
    /\ decoder.args = <<[name |-> <<"b">>, value |-> <<"x", "\n", " ", "y">>],
                        [name |-> <<"a">>, value |-> <<"1">>]>>
    /\ decoder.result.name = "my tool"
    /\ decoder.result.arguments = [n \in {"a", "b"} |->
                                      IF n = "a" THEN "1" ELSE "x\n y"]

\* C16: parse raises the missing-end-marker error on every text without
\* an END marker, whatever else the text holds, a BEGIN marker and a
\* function name included; on a text with an END marker and no BEGIN
\* marker before the last END it raises the missing-begin-marker error.
C16_MissingMarkers ==
    DecodedText =>
        /\ ~HasEnd(decoder.input.value) => decoder.result.error = ErrNoEnd
        /\ (HasEnd(decoder.input.value) /\ ~HasBegin(decoder.input.value))
              => decoder.result.error = ErrNoBegin

\* BEGIN and a function name without END have been rejected
C16_Witness ==
    /\ decoder.case = "text"
    /\ decoder.input.value = BEGIN_CALL \o <<"\n", "f", "\n">>
    /\ decoder.result.error = ErrNoEnd

\* the four error conditions, read off the text
CondNoEnd(text) == ~HasEnd(text)
CondNoBegin(text) == HasEnd(text) /\ ~HasBegin(text)
CondMalformed(text) == HasBlock(text) /\ HasConsumedDangling(text)
CondNoName(text) ==
    /\ HasBlock(text)
    /\ ~HasConsumedDangling(text)
    /\ NameBlank(text, NameWindowEnd(text))

\* the outcome of parse on a str is the one its text determines
TextOutcome ==
    DecodedText =>
        /\ decoder.result.error = ErrNoEnd <=> CondNoEnd(decoder.input.value)
        /\ decoder.result.error = ErrNoBegin
              <=> CondNoBegin(decoder.input.value)
        /\ decoder.result.error = ErrMalformed
              <=> CondMalformed(decoder.input.value)
        /\ decoder.result.error = ErrNoName
              <=> CondNoName(decoder.input.value)
        /\ decoder.result.error
              \in {"", ErrNoEnd, ErrNoBegin, ErrMalformed, ErrNoName}
        /\ decoder.result.error = "" => decoder.result.name # ""

\* C17 as stated: for every input the outcome of parse is a returned
\* record or exactly one of the four errors missing-end, missing-begin,
\* malformed-argument-block, missing-function-name, each under its own
\* condition on the text; parse raises no other error.
C17_FourErrorsOnly ==
    /\ TextOutcome
    /\ decoder.case = "object"
          => decoder.result.error
                \in {"", ErrNoEnd, ErrNoBegin, ErrMalformed, ErrNoName}

\* C17 amended: for every str input the outcome of parse is a returned
\* record or exactly one of the four errors, each under its own condition
\* on the text, the conditions excluding one another; for an input that
\* is no str parse raises a fifth error, "Input to ResponseParser.parse
\* must be a string".
C17_FourTextErrorsAndTypeError ==
    /\ TextOutcome
    /\ decoder.case = "object" => decoder.result.error = ErrNotString

\* parse has raised the fifth error on a bytes value that holds a
\* well-formed call
C17_Witness ==
    /\ decoder.case = "object"
    /\ decoder.input.type = "bytes"
    /\ parse(decoder.input.value).error = ""
    /\ decoder.result.error = ErrNotString

\* C18: on success the thought parse returns is the text before the last
\* BEGIN marker (the one before the last END) with the whitespace removed
\* from both its start and its end.
C18_ThoughtTrimmedBothEnds ==
    (DecodedText /\ decoder.result.error = "")
    => decoder.result.thought
          = Join(strip(SubSeq(decoder.input.value, 1,
                              LastBegin(decoder.input.value) - 1)))

\* C20: blank lines and spaces put around the markers, the function name,
\* the argument names and the argument values of a well-formed call do
\* not change what is decoded: the name and the argument map are those of
\* the call in the plain template, and names and values come back without
\* the whitespace around them and with the whitespace and line breaks
\* inside them kept.
C20_PaddingIgnored ==
    decoder.case = "call" =>
        LET plain == parse(Encode(decoder.thought, decoder.name,
                                  decoder.args, TemplatePad, TemplatePad, 0))
        IN  /\ decoder.result.error = ""
            /\ decoder.result.name = plain.name
            /\ decoder.result.arguments = plain.arguments
            /\ decoder.result.name = Join(decoder.name)
            /\ \A i \in 1..Len(decoder.args) :
                  IsFirstOfName(decoder.args, i) =>
                     decoder.result.arguments[Join(decoder.args[i].name)]
                        = Join(decoder.args[i].value)

\* a call padded with spaces, tabs and blank lines, one value of two
\* lines, has been decoded
C20_Witness ==
    /\ decoder.case = "call"
    /\ decoder.after = <<" ", "\n", "\t">>
    /\ decoder.before = <<"\n", "\n">>
    /\ decoder.name = <<"my", " ", "tool">>
    /\ decoder.args = <<[name |-> <<"a">>, value |-> <<"x", "\n", " ", "y">>]>>
    /\ decoder.result.name = "my tool"
    /\ decoder.result.arguments = [n \in {"a"} |-> "x\n y"]

\* ------------------------------------------------------------------------
\* Properties of the registry (under SpecApi)
\* ------------------------------------------------------------------------
FinishRegistered == "finish" \in DOMAIN function_map

ToolNames(tools) == {ToolName(tools[i]) : i \in 1..Len(tools)}

\* the last tool of the list that carries the name
LastToolNamed(tools, n) ==
    tools[CHOOSE i \in 1..Len(tools) :
             /\ ToolName(tools[i]) = n
             /\ \A j \in (i + 1)..Len(tools) : ToolName(tools[j]) # n]

\* after add_functions(tools) every name of the list maps to the tool
\* handed in under it, every other entry is as before, and the registry
\* lists each name once
RegistrationReplaces(tools) ==
    /\ DOMAIN function_map' = DOMAIN function_map \cup ToolNames(tools)
    /\ \A n \in DOMAIN function_map' :
          function_map'[n] = IF n \in ToolNames(tools)
                             THEN LastToolNamed(tools, n)
                             ELSE function_map[n]
    /\ {function_names'[i] : i \in 1..Len(function_names')}
          = DOMAIN function_map'
    /\ Len(function_names') = Cardinality(DOMAIN function_map')

\* C19: from the end of construction on and after any sequence of
\* add_functions calls, one that registers another callable named finish
\* included, function_map has an entry under the name finish; and a
\* registration under a name already present replaces the capability held
\* under it, the registry holding one entry per name.
C19_FinishAlwaysRegistered ==
    /\ FinishRegistered
    /\ [][/\ FinishRegistered'
          /\ \A tools \in ApiToolLists :
                AddFunctions(tools) => RegistrationReplaces(tools)]_vars

\* another callable named finish has taken the place of the agent's own,
\* and of two tools named run_bash_cmd the later one is registered
C19_Witness ==
    /\ function_map["finish"] = ToolUserFinish
    /\ function_names = <<"finish", "run_bash_cmd">>
    /\ function_map["run_bash_cmd"] = ToolSWEBash

\* ------------------------------------------------------------------------
\* The function name (under SpecParser)
\* ------------------------------------------------------------------------
\* C21 as stated: once the ARG/VALUE blocks are consumed, the decoded
\* function name is the first non-blank line, trimmed, of the text between
\* the end of the BEGIN marker and the first ARG marker of the block (END
\* when the block has no ARG); when that region has no non-blank line
\* parse raises the missing-function-name error, well-formed argument
\* blocks or not.
C21_NameIsFirstNonBlankLine ==
    (/\ DecodedText
     /\ HasBlock(decoder.input.value)
     /\ ~HasConsumedDangling(decoder.input.value))
    => IF NameBlank(decoder.input.value, FirstArgMarker(decoder.input.value))
       THEN decoder.result.error = ErrNoName
       ELSE /\ decoder.result.error = ""
            /\ decoder.result.name
                  = NameRead(decoder.input.value,
                             FirstArgMarker(decoder.input.value))

\* C21: once the ARG/VALUE blocks are consumed, the decoded function name
\* is the first non-blank line, trimmed, of the text between the end of
\* the BEGIN marker and the final right boundary of the scan, the start of
\* the first ARG marker the scan consumed (END when it consumed none);
\* when that region has no non-blank line parse raises the
\* missing-function-name error, well-formed argument blocks or not.  In a
\* text where no two markers share their dashes the boundary is the first
\* ARG marker of the block.
C21_NameIsFirstLineBeforeConsumedArg ==
    (/\ DecodedText
     /\ HasBlock(decoder.input.value)
     /\ ~HasConsumedDangling(decoder.input.value))
    => /\ IF NameBlank(decoder.input.value,
                       NameWindowEnd(decoder.input.value))
          THEN decoder.result.error = ErrNoName
          ELSE /\ decoder.result.error = ""
               /\ decoder.result.name
                     = NameRead(decoder.input.value,
                                NameWindowEnd(decoder.input.value))
       /\ NameWindowEnd(decoder.input.value)
             # FirstArgMarker(decoder.input.value)
             => SharesDashes(decoder.input.value)

\* a block with a well-formed argument block and nothing before it has
\* been rejected for its missing name
C21_Witness ==
    /\ decoder.case = "text"
    /\ decoder.input.value
          = BEGIN_CALL \o ARG_SEP \o <<"f">> \o VALUE_SEP \o END_CALL
    /\ decoder.result.error = ErrNoName

\* ------------------------------------------------------------------------
\* Order of the entries of an iteration (under Spec)
\* ------------------------------------------------------------------------
\* what the capability named by the text answers in the present state
CalledNow(text) ==
    CallTool(function_map[parse(text).name], parse(text).arguments, sandbox)

\* C22: in every iteration whose text decodes, the thought is appended as
\* an assistant entry first, whether or not the name is registered; when
\* the name is registered and the capability returns, its return value is
\* appended as a tool entry directly after the thought entry, ahead of
\* whatever the termination check adds; and when the iteration makes run
\* return through finish, the last ledger entry is that tool entry and its
\* content is the value run returns.
C22_ThoughtThenToolEntry ==
    [][(IterationStep /\ parse(response_text').error = "")
       => /\ Len(id_to_message') >= Len(id_to_message) + 1
          /\ SubSeq(id_to_message', 1, Len(id_to_message)) = id_to_message
          /\ id_to_message'[Len(id_to_message) + 1]
                = Entry("assistant", parse(response_text').thought,
                        Len(id_to_message))
          /\ (/\ IsRegisteredCall(response_text')
              /\ CalledNow(response_text').raised = "")
             => /\ Len(id_to_message') >= Len(id_to_message) + 2
                /\ id_to_message'[Len(id_to_message) + 2]
                      = Entry("tool", CalledNow(response_text').value,
                              Len(id_to_message) + 1)
          /\ pc' = "returned"
             => /\ Len(id_to_message') = Len(id_to_message) + 2
                /\ id_to_message'[Len(id_to_message')].role = "tool"
                /\ run_result'
                      = <<"str", id_to_message'[Len(id_to_message')].content>>
                /\ parse(response_text').name = "finish"]_vars

\* run has returned r1 through a finish the guard accepted: the thought
\* entry, then the tool entry holding r1, close the ledger
C22_Witness ==
    /\ pc = "returned"
    /\ outcome = "finish_accepted"
    /\ run_result = <<"str", "r1">>
    /\ LastEntry = Entry("tool", "r1", Len(id_to_message) - 1)
    /\ id_to_message[Len(id_to_message) - 1]
          = Entry("assistant", "done", Len(id_to_message) - 2)

\* ------------------------------------------------------------------------
\* set_message_content on an id out of range (under SpecTranscript)
\* ------------------------------------------------------------------------
\* C23: set_message_content called with an id that is negative or not
\* below the ledger length raises nothing and leaves the ledger as it is:
\* every entry's role, content and id, the length and current_message_id;
\* the agent stays where it was.
C23_InvalidIdIgnored ==
    [][\A message_id \in -1..Len(id_to_message), content \in SetContents :
          (/\ SetMessageContent(message_id, content)
           /\ (message_id < 0 \/ message_id >= Len(id_to_message)))
          => /\ id_to_message' = id_to_message
             /\ current_message_id' = current_message_id
             /\ pc' = pc
             /\ run_result' = run_result]_vars

\* the one call made on the fresh agent was a set_message_content that
\* changed nothing: its id was out of range
C23_Witness ==
    /\ pc = "idle"
    /\ api_calls = 1
    /\ id_to_message = InitLedger.id_to_message
    /\ current_message_id = InitLedger.current_message_id
    /\ function_names = <<"finish">>

\* ------------------------------------------------------------------------
\* Termination of run (under SpecLive)
\* ------------------------------------------------------------------------
\* min(max_steps, 100) of the budget handed to run
EffectiveBudget ==
    IF budget > MAX_STEPS_CEILING THEN MAX_STEPS_CEILING ELSE budget

\* C24: provided every provider call and every capability call comes back,
\* every run ends, whatever the provider answers (well-formed calls,
\* undecodable texts, unknown names, finishes the guard rejects): it
\* returns through a finish that was accepted or, after min(max_steps, 100)
\* iterations and never more, through the exhausted budget.  The one other
\* way out of the loop is a capability call that raised instead of coming
\* back.
C24_RunTerminates ==
    /\ (pc = "loop") ~> (pc \in {"returned", "raised"})
    /\ [](pc # "idle" => step <= EffectiveBudget)
    /\ [][(step' = step + 1) <=> IterationStep]_vars
    /\ [](pc = "returned"
            => \/ outcome \in {"finish_accepted", "finish_unguarded"}
               \/ outcome = "exhausted" /\ step = EffectiveBudget)
    /\ [](pc = "raised" => outcome = "tool_raised")

\* a run handed a budget of 101 has ended through exhaustion after 100
\* iterations, each on a text that could not be decoded
C24_Witness ==
    /\ pc = "returned"
    /\ outcome = "exhausted"
    /\ budget = MAX_STEPS_CEILING + 1
    /\ step = MAX_STEPS_CEILING
    /\ llm_calls = MAX_STEPS_CEILING
    /\ response_text = RespNoEnd

\* ------------------------------------------------------------------------
\* Growth of the ledger during run (under Spec)
\* ------------------------------------------------------------------------
\* the guard is registered and reports no change after the call named by
\* the text
GuardRejects(text) ==
    /\ "check_patch" \in DOMAIN function_map
    /\ CallTool(function_map["check_patch"], EmptyDict,
                CalledNow(text).sandbox).value # "True"

\* the roles of the entries an iteration on this text has to append
ExpectedRoles(text) ==
    IF parse(text).error # "" THEN <<"assistant">>
    ELSE IF ~IsRegisteredCall(text) THEN <<"assistant", "assistant">>
    ELSE IF CalledNow(text).raised # "" THEN <<"assistant">>
    ELSE IF parse(text).name = "finish" /\ GuardRejects(text)
    THEN <<"assistant", "tool", "assistant">>
    ELSE <<"assistant", "tool">>

\* the ledger of the next state keeps every entry of this one in place
KeepsEntries ==
    /\ Len(id_to_message') >= Len(id_to_message)
    /\ \A i \in 1..Len(id_to_message) :
          /\ id_to_message'[i].unique_id = id_to_message[i].unique_id
          /\ id_to_message'[i].role = id_to_message[i].role

\* beyond the two slots the ledger holds entries written by run only (the
\* application's own entries are of role user here)
OnlyRunEntries ==
    \A i \in 3..Len(id_to_message) :
        id_to_message[i].role \in {"assistant", "tool"}

\* C25: no step ever removes or moves a ledger entry, and an iteration of
\* run leaves the entries it found untouched and appends a number of
\* entries fixed by how it ended: one (corrective) when the text does not
\* decode, two (thought, corrective) when the name is unknown, two
\* (thought, tool) when the capability returned, an accepted finish
\* included, three (thought, tool, corrective) when the guard rejected a
\* finish, and the thought alone when the capability raised; so a ledger
\* to which the application added no entry of its own holds between
\* 2 + k and 2 + 3k entries after k iterations, those of earlier runs on
\* the same ledger counted.
C25_LedgerGrowth ==
    /\ [][KeepsEntries]_vars
    /\ [][IterationStep
          => /\ SubSeq(id_to_message', 1, Len(id_to_message)) = id_to_message
             /\ Len(id_to_message')
                   = Len(id_to_message) + Len(ExpectedRoles(response_text'))
             /\ \A i \in 1..Len(ExpectedRoles(response_text')) :
                   /\ id_to_message'[Len(id_to_message) + i].role
                         = ExpectedRoles(response_text')[i]
                   /\ id_to_message'[Len(id_to_message) + i].unique_id
                         = Len(id_to_message) + i - 1]_vars
    /\ [](OnlyRunEntries
            => /\ Len(id_to_message) >= 2 + llm_calls
               /\ Len(id_to_message) <= 2 + 3 * llm_calls)

\* three iterations on a finish the guard rejected have left 2 + 3 * 3
\* entries, the last a corrective one after a tool entry
C25_Witness ==
    /\ OnlyRunEntries
    /\ llm_calls = 3
    /\ outcome = "finish_rejected"
    /\ Len(id_to_message) = 11
    /\ LastEntry.role = "assistant"
    /\ id_to_message[Len(id_to_message) - 1].role = "tool"

\* ------------------------------------------------------------------------
\* Text after the last END marker (under SpecParser)
\* ------------------------------------------------------------------------
\* the response the tail was appended to
AppendedBase ==
    Encode(decoder.thought, decoder.name, decoder.args, decoder.after,
           decoder.before, 0)

\* the appended text holds no END marker
TailHasNoEnd ==
    \A i \in 1..Len(decoder.middle) : ~Occurs(decoder.middle, END_CALL, i)

\* the appended text starts with what the dashes before it complete to an
\* END marker
TailCompletesEnd ==
    /\ Len(decoder.middle) >= Len(EndTail)
    /\ SubSeq(decoder.middle, 1, Len(EndTail)) = EndTail

\* C26 as stated: text without an END marker appended after the last END
\* marker never changes the thought, the name or the arguments returned.
C26_TailWithoutEndIgnored ==
    (decoder.case = "appended" /\ TailHasNoEnd)
        => decoder.result = parse(AppendedBase)

\* C26: text appended after the last END marker leaves the thought, the
\* name and the arguments returned unchanged when it holds no END marker
\* and completes none with the dashes that end the text before it, even
\* if it holds BEGIN, ARG or VALUE markers; the appended text itself is
\* then what follows the last END marker of the whole text.
C26_TailIgnoredUnlessEndFormed ==
    (decoder.case = "appended" /\ TailHasNoEnd /\ ~TailCompletesEnd)
        => /\ decoder.result = parse(AppendedBase)
           /\ decoder.result.error = ""
           /\ decoder.result.thought = Join(rstrip(decoder.thought))
           /\ decoder.result.name = Join(strip(decoder.name))
           /\ Slice(decoder.input.value,
                    rfind(decoder.input.value, END_CALL, 0,
                          Len(decoder.input.value)) + MarkerLen(END_CALL),
                    Len(decoder.input.value)) = decoder.middle

\* a complete call of f with a = 1 was honoured over the unfinished call
\* of g written after it
C26_Witness ==
    /\ decoder.case = "appended"
    /\ decoder.middle
          = <<"\n">> \o BEGIN_CALL \o <<"\n", "g", "\n">> \o ARG_SEP
               \o <<"\n", "c">>
    /\ decoder.result.error = ""
    /\ decoder.result.name = "f"
    /\ DOMAIN decoder.result.arguments = {"a"}
    /\ decoder.result.arguments["a"] = "1"

====
